---- MODULE Spec2Model ----
(***************************************************************************)
(* Clinic backend: the appointment routes (daily token allocator, slot     *)
(* conflict check, payment status) and the dispensary routes (dispense     *)
(* lifecycle, payment status).  Every await of a handler that touches the  *)
(* store is one step of the request that runs it; requests run on worker   *)
(* slots that interleave freely.                                           *)
(***************************************************************************)
EXTENDS Integers, FiniteSets, Sequences, TLC

\* ------------------------------------------------------------- bounds
NProcs == 2          \* request handlers that may run at the same time
MaxReq == 3          \* requests of a behaviour of Spec
MaxAllocReq == 4     \* requests of a behaviour of SpecAlloc
MaxSeqReq == 5       \* requests of a behaviour of SpecSeq
MaxPayReq == 2       \* requests of a behaviour of SpecPay
MaxDate == 2         \* appointmentDate instants 0..MaxDate
DayLength == 2       \* instants per calendar day
MaxMoney == 2        \* money amounts 0..MaxMoney
MaxDispReq == 3      \* requests of a behaviour of SpecDisp
MaxDispSeqReq == 3   \* requests of a behaviour of SpecDispSeq
MaxQty == 2          \* item quantities 0..MaxQty
MaxStock == 2        \* the stock of every medicine at the start
MaxBill == 2         \* bill numbers 1..MaxBill that the clock and Math.random give
MaxLedgerReq == 2    \* requests of a behaviour of SpecLedger

\* ------------------------------------------------------------- values
Undef == -1          \* JavaScript undefined for a numeric field
NoStr == ""          \* JavaScript undefined for a string field

Procs == 1..NProcs
Doctors == {1, 2}
Times == {"09:00", "10:00"}
Dates == 0..MaxDate
Money == 0..MaxMoney

Statuses ==
  {"scheduled", "confirmed", "in-progress", "completed", "cancelled",
   "no-show", "prescription dispensed"}

\* status values the PUT validator lets through that the model exercises
UpdateStatuses == {"scheduled", "cancelled"}

\* a conflict query that also counts dispensed appointments
ActiveStatusesDispensed == {"scheduled", "confirmed", "prescription dispensed"}

\* statuses that block a slot in the conflict filter
ActiveStatuses == {"scheduled", "confirmed"}

\* one attempt too many
MaxAttemptsFour == 3 + 1

\* for (let attempt = 0; attempt < 3; attempt++)
MaxAttempts == 3

\* Doctor.consultationFee of each doctor document
ConsultationFee(doc) == IF doc = 1 THEN 1 ELSE 2

\* Number(x || 0) and Number(x ?? 0)
Num(x) == IF x = Undef THEN 0 ELSE x

\* a || 0 in place of a ?? b
CoalesceZero(a, b) == IF a # Undef THEN a ELSE 0

\* a ?? b
Coalesce(a, b) == IF a # Undef THEN a ELSE b

Max(a, b) == IF a >= b THEN a ELSE b

\* new Date(appointmentDate); setHours(0, 0, 0, 0)
truncateToDay(d) == d - (d % DayLength)

\* paid <= payable in place of paid < payable
PaymentStatusLe(paid, amount, discount) ==
  LET payable == Max(0, amount - discount)
  IN  IF paid <= 0 THEN "pending"
      ELSE IF paid <= payable THEN "partial"
      ELSE "paid"

\* the branch chain that derives paymentStatus in the appointment routes
PaymentStatus(paid, amount, discount) ==
  LET payable == Max(0, amount - discount)
  IN  IF paid <= 0 THEN "pending"
      ELSE IF paid < payable THEN "partial"
      ELSE "paid"

\* a token further than the count
NextTokenSkip(count) == count + 2

\* appointmentData.dailyToken = count + 1
NextToken(count) == count + 1

VARIABLES
  appts,      \* the appointments collection: a set of documents
  nextId,     \* the next ObjectId
  pc,         \* pc[p]: where worker p is in its handler
  req,        \* req[p]: the request body and the handler's locals
  result,     \* the response of the request that finished last
  touched,    \* days that had a deletion or a reschedule into or out of them
  budget,     \* requests that may still arrive
  dispenses,  \* the dispenses collection: a set of documents
  stock,      \* stock[m]: the stock field of medicine m
  nextDispId, \* the next ObjectId of a dispense
  dpc,        \* dpc[p]: where worker p is in its dispensary handler
  dreq,       \* dreq[p]: the dispensary request and the handler's locals
  ledger      \* history: the stock deltas the handlers applied, per medicine,
              \* and whether a consumption was floored at zero

vars ==
  <<appts, nextId, pc, req, result, touched, budget,
    dispenses, stock, nextDispId, dpc, dreq, ledger>>

\* the state of the dispensary routes
dvars == <<dispenses, stock, nextDispId, dpc, dreq, ledger>>

\* ---------------------------------------------------------- the store
ById(id) == CHOOSE a \in appts : a.id = id

Exists(id) == \E a \in appts : a.id = id

\* a count that is not taken again: the day as it was when empty
CountDayOnce(day, selfId) == 0

\* countDocuments({ appointmentDay: day, _id: { $ne: selfId } })
CountDay(day, selfId) ==
  Cardinality({a \in appts : a.day = day /\ a.id # selfId})

\* the index without its unique option
DupKeyNever(day, token, selfId) == FALSE

\* the unique index on (appointmentDay, dailyToken): E11000 for a write that
\* would give the key of another document
DupKey(day, token, selfId) ==
  \E a \in appts : a.id # selfId /\ a.day = day /\ a.token = token

\* the conflict query without its _id: {$ne} clause
HasConflictSelf(doctor, date, time, selfId) ==
  \E a \in appts :
    /\ a.doctor = doctor
    /\ a.date = date
    /\ a.time = time
    /\ a.status \in {"scheduled", "confirmed"}

\* findOne({ _id: {$ne}, doctor, appointmentDate, appointmentTime,
\*           status: {$in: ['scheduled','confirmed']} })
HasConflict(doctor, date, time, selfId) ==
  \E a \in appts :
    /\ a.id # selfId
    /\ a.doctor = doctor
    /\ a.date = date
    /\ a.time = time
    /\ a.status \in ActiveStatuses

\* ------------------------------------------------------- request bodies
\* amount0 is history: req.body.amount of an update as it was sent; work is
\* the rest of the sorted lists of the backfill script
NoReq ==
  [op |-> "none", id |-> Undef, doctor |-> Undef, date |-> Undef,
   time |-> NoStr, status |-> NoStr, amount |-> Undef, discount |-> Undef,
   pOn |-> Undef, pOff |-> Undef,
   sDoctor |-> Undef, sDate |-> Undef, sTime |-> NoStr,
   day |-> Undef, count |-> Undef, token |-> Undef, attempt |-> 0,
   payStatus |-> NoStr, amount0 |-> Undef, work |-> <<>>]

OptMoney == Money \cup {Undef}

Body(d, dt, t, s) ==
  [NoReq EXCEPT !.doctor = d, !.date = dt, !.time = t, !.status = s]

\* POST bodies of Spec: one doctor, one time of day, every date
CreateBodies ==
  {[Body(1, dt, "09:00", NoStr) EXCEPT !.op = "create"] : dt \in Dates}

\* PUT bodies of Spec: reschedules, which carry appointmentDate
RescheduleBodies ==
  {[Body(Undef, dt, NoStr, NoStr) EXCEPT !.op = "update"] : dt \in Dates}

\* POST bodies of SpecAlloc: three slots of one date, which compete for the
\* tokens of the same day (a request loses its three attempts to three
\* documents saved by others)
AllocBodies ==
  {[Body(1, 0, t, NoStr) EXCEPT !.op = "create"] : t \in Times}
    \cup {[Body(2, 0, "09:00", NoStr) EXCEPT !.op = "create"]}

\* POST bodies of SpecSeq
SeqCreateBodies ==
  {[Body(1, dt, "09:00", NoStr) EXCEPT !.op = "create"] : dt \in Dates}

\* PUT bodies of SpecSeq: a new doctor, date, time or status
SeqUpdateBodies ==
  {[b EXCEPT !.op = "update"] :
     b \in {Body(2, Undef, NoStr, NoStr), Body(Undef, Undef, "10:00", NoStr)}
           \cup {Body(Undef, dt, NoStr, NoStr) : dt \in Dates}
           \cup {Body(Undef, Undef, NoStr, s) : s \in UpdateStatuses}}

\* POST bodies of SpecDay: a date, with and without an appointmentDay of the
\* caller
DayCreateBodies ==
  {[Body(1, dt, "09:00", NoStr) EXCEPT !.op = "create", !.day = dy] :
     dt \in Dates, dy \in {Undef, DayLength}}

\* PUT bodies of SpecDay: a new date, an appointmentDay of the caller, or both
DayUpdateBodies ==
  {[Body(Undef, dt, NoStr, NoStr) EXCEPT !.op = "update", !.day = dy] :
     dt \in Dates \cup {Undef}, dy \in {Undef, 0, DayLength}}

SmallMoney == {Undef, 0, 1}

Payments(b) ==
  {[b EXCEPT !.amount = am, !.discount = di, !.pOn = on, !.pOff = off] :
     am \in {Undef, 1, MaxMoney}, di \in SmallMoney, on \in OptMoney,
     off \in {Undef, 1}}

\* POST bodies of SpecPay: one slot, every payment
PayCreateBodies ==
  Payments([Body(1, 0, "09:00", NoStr) EXCEPT !.op = "create"])

\* PUT bodies of SpecPay: payments, with a new doctor or a new date or neither
PayUpdateBodies ==
  UNION {Payments([b EXCEPT !.op = "update"]) :
           b \in {Body(Undef, Undef, NoStr, NoStr), Body(2, Undef, NoStr, NoStr),
                  Body(Undef, DayLength, NoStr, NoStr)}}

\* the test of POST /, which looks at the two payment fields only
HasPaymentFieldPaidOnly(b) == b.pOn # Undef \/ b.pOff # Undef

HasPaymentField(b) ==
  b.pOn # Undef \/ b.pOff # Undef \/ b.amount # Undef \/ b.discount # Undef

\* findByIdAndUpdate(id, updateBody): the fields of updateBody replace the
\* stored ones
ApplyBody(a, b) ==
  [a EXCEPT !.doctor = Coalesce(b.doctor, @),
            !.date = Coalesce(b.date, @),
            !.time = IF b.time # NoStr THEN b.time ELSE @,
            !.status = IF b.status # NoStr THEN b.status ELSE @,
            !.amount = Coalesce(b.amount, @),
            !.discount = Coalesce(b.discount, @),
            !.pOn = Coalesce(b.pOn, @),
            !.pOff = Coalesce(b.pOff, @),
            !.day = Coalesce(b.day, @),
            !.token = Coalesce(b.token, @),
            !.payStatus = IF b.payStatus # NoStr THEN b.payStatus ELSE @]

\* new Appointment(appointmentData) with the schema defaults
NewAppointment(id, b) ==
  [id |-> id, doctor |-> b.doctor, date |-> b.date, time |-> b.time,
   day |-> b.day, token |-> b.token,
   status |-> IF b.status # NoStr THEN b.status ELSE "scheduled",
   amount |-> b.amount,
   discount |-> Num(b.discount), pOn |-> Num(b.pOn), pOff |-> Num(b.pOff),
   payStatus |-> IF b.payStatus # NoStr THEN b.payStatus ELSE "pending"]

\* a request arrives at a free worker
Begin(p) ==
  /\ pc[p] = "idle"
  /\ budget > 0
  /\ budget' = budget - 1
  /\ UNCHANGED dvars

\* the response is sent and the worker is free again
Finish(p, res, r) ==
  /\ pc' = [pc EXCEPT ![p] = "idle"]
  /\ result' = res
  /\ req' = [req EXCEPT ![p] = r]

Goto(p, label, r) ==
  /\ pc' = [pc EXCEPT ![p] = label]
  /\ req' = [req EXCEPT ![p] = r]
  /\ UNCHANGED result

\* ------------------------------------------------ POST /api/appointments
\* conflict check, appointmentDay, payment status
CreateCheck(p, b) ==
  /\ Begin(p)
  /\ UNCHANGED <<appts, nextId, touched>>
  /\ IF HasConflict(b.doctor, b.date, b.time, Undef)
     THEN Finish(p, "conflict", NoReq)
     ELSE LET st == IF b.pOn # Undef \/ b.pOff # Undef
                    THEN PaymentStatus(Num(b.pOn) + Num(b.pOff),
                                       Num(b.amount), Num(b.discount))
                    ELSE NoStr
          IN  /\ pc' = [pc EXCEPT ![p] = "c_count"]
              /\ UNCHANGED result
              /\ req' = [req EXCEPT ![p] =
                           [b EXCEPT !.day = truncateToDay(b.date),
                                     !.payStatus = st, !.attempt = 0]]

\* const count = await Appointment.countDocuments({ appointmentDay: day })
CreateCount(p) ==
  /\ pc[p] = "c_count"
  /\ UNCHANGED <<budget, dvars>>
  /\ LET c == CountDay(req[p].day, Undef)
     IN  Goto(p, "c_save", [req[p] EXCEPT !.count = c, !.token = NextToken(c)])
  /\ UNCHANGED <<appts, nextId, touched>>

\* saved = await appointment.save(), and the catch around it
CreateSave(p) ==
  /\ pc[p] = "c_save"
  /\ UNCHANGED <<budget, dvars>>
  /\ LET r == req[p] IN
     IF DupKey(r.day, r.token, Undef)
     THEN /\ UNCHANGED <<appts, nextId, touched>>
          /\ IF r.attempt + 1 < MaxAttempts
             THEN Goto(p, "c_count", [r EXCEPT !.attempt = @ + 1])
             ELSE Finish(p, "tokenfail", NoReq)
     ELSE /\ appts' = appts \cup {NewAppointment(nextId, r)}
          /\ nextId' = nextId + 1
          /\ UNCHANGED touched
          /\ Finish(p, "ok", NoReq)

\* save() rejected with an error that is not E11000: rethrown, 500
CreateSaveError(p) ==
  /\ pc[p] = "c_save"
  /\ UNCHANGED <<budget, dvars>>
  /\ UNCHANGED <<appts, nextId, touched>>
  /\ Finish(p, "error", NoReq)

\* ------------------------------------------- PUT /api/appointments/:id
\* const appointment = await Appointment.findById(req.params.id), and the
\* doctor lookup that defaults amount to the new doctor's fee
UpdateFind(p, id, b) ==
  /\ Begin(p)
  /\ UNCHANGED <<appts, nextId, touched>>
  /\ IF ~Exists(id)
     THEN Finish(p, "notfound", NoReq)
     ELSE LET a == ById(id)
              amt == IF b.doctor # Undef /\ b.amount = Undef
                     THEN ConsultationFee(b.doctor) ELSE b.amount
              r == [b EXCEPT !.id = id, !.amount = amt, !.sDoctor = a.doctor,
                             !.sDate = a.date, !.sTime = a.time,
                             !.amount0 = b.amount]
          IN  /\ pc' = [pc EXCEPT ![p] =
                         IF b.date # Undef \/ b.time # NoStr \/ b.doctor # Undef
                         THEN "u_conflict"
                         ELSE IF HasPaymentField(r) THEN "u_current"
                         ELSE "u_write"]
              /\ UNCHANGED result
              /\ req' = [req EXCEPT ![p] = r]

\* the conflict findOne on the effective doctor, date and time
UpdateConflict(p) ==
  /\ pc[p] = "u_conflict"
  /\ UNCHANGED <<budget, dvars>>
  /\ UNCHANGED <<appts, nextId, touched>>
  /\ LET r == req[p]
         appointmentDate == Coalesce(r.date, r.sDate)
         appointmentTime == IF r.time # NoStr THEN r.time ELSE r.sTime
         doctorToCheck == Coalesce(r.doctor, r.sDoctor)
     IN  IF HasConflict(doctorToCheck, appointmentDate, appointmentTime, r.id)
         THEN Finish(p, "conflict", NoReq)
         ELSE IF r.date # Undef
         THEN Goto(p, "u_count", [r EXCEPT !.day = truncateToDay(r.date),
                                           !.attempt = 0])
         ELSE IF HasPaymentField(r) THEN Goto(p, "u_current", r)
         ELSE Goto(p, "u_write", r)

\* countDocuments({ appointmentDay: day, _id: { $ne: req.params.id } })
UpdateCount(p) ==
  /\ pc[p] = "u_count"
  /\ UNCHANGED <<budget, dvars>>
  /\ UNCHANGED <<appts, nextId, touched>>
  /\ LET r == req[p]
         c == CountDay(r.day, r.id)
     IN  Goto(p, IF HasPaymentField(r) THEN "u_tcurrent" ELSE "u_twrite",
              [r EXCEPT !.count = c, !.token = NextToken(c)])

\* const current = await Appointment.findById(req.params.id) and the status
\* derived from the supplied fields, else the stored ones
DeriveFromCurrent(p, label) ==
  /\ UNCHANGED <<appts, nextId, touched>>
  /\ LET r == req[p] IN
     IF ~Exists(r.id)
     THEN Finish(p, "error", NoReq)          \* current is null: TypeError, 500
     ELSE LET cur == ById(r.id)
              paid == Num(Coalesce(r.pOn, cur.pOn))
                        + Num(Coalesce(r.pOff, cur.pOff))
              amount == Num(Coalesce(r.amount, cur.amount))
              discount == Num(Coalesce(r.discount, cur.discount))
          IN  Goto(p, label,
                   [r EXCEPT !.payStatus = PaymentStatus(paid, amount, discount)])

\* inside the token loop
UpdateTokenCurrent(p) ==
  /\ pc[p] = "u_tcurrent"
  /\ UNCHANGED <<budget, dvars>>
  /\ DeriveFromCurrent(p, "u_twrite")

\* findByIdAndUpdate inside the token loop, and the catch around it
UpdateTokenWrite(p) ==
  /\ pc[p] = "u_twrite"
  /\ UNCHANGED <<budget, dvars>>
  /\ UNCHANGED nextId
  /\ LET r == req[p] IN
     IF ~Exists(r.id)
     THEN /\ UNCHANGED <<appts, touched>>    \* no document matched: data null
          /\ Finish(p, "ok", NoReq)
     ELSE IF DupKey(r.day, r.token, r.id)
     THEN /\ UNCHANGED <<appts, touched>>
          /\ IF r.attempt + 1 < MaxAttempts
             THEN Goto(p, "u_count", [r EXCEPT !.attempt = @ + 1])
             ELSE Finish(p, "tokenfail", NoReq)
     ELSE LET a == ById(r.id) IN
          /\ appts' = (appts \ {a}) \cup {ApplyBody(a, r)}
          /\ touched' = touched \cup {a.day, r.day}
          /\ Finish(p, "ok", NoReq)

\* findByIdAndUpdate rejected with an error that is not E11000
UpdateTokenWriteError(p) ==
  /\ pc[p] = "u_twrite"
  /\ UNCHANGED <<budget, dvars>>
  /\ UNCHANGED <<appts, nextId, touched>>
  /\ Finish(p, "error", NoReq)

\* outside the token loop
UpdateCurrent(p) ==
  /\ pc[p] = "u_current"
  /\ UNCHANGED <<budget, dvars>>
  /\ DeriveFromCurrent(p, "u_write")

\* the final findByIdAndUpdate of an update without appointmentDate
UpdateWrite(p) ==
  /\ pc[p] = "u_write"
  /\ UNCHANGED <<budget, dvars>>
  /\ UNCHANGED <<nextId, touched>>
  /\ LET r == req[p] IN
     IF ~Exists(r.id)
     THEN UNCHANGED appts /\ Finish(p, "ok", NoReq)
     ELSE LET set == ApplyBody(ById(r.id), r) IN
          IF DupKey(set.day, set.token, r.id)
          THEN UNCHANGED appts /\ Finish(p, "error", NoReq)   \* E11000, 500
          ELSE /\ appts' = (appts \ {ById(r.id)}) \cup {set}
               /\ Finish(p, "ok", NoReq)

\* ---------------------------------------- DELETE /api/appointments/:id
DeleteFind(p, id) ==
  /\ Begin(p)
  /\ UNCHANGED <<appts, nextId, touched>>
  /\ IF ~Exists(id)
     THEN Finish(p, "notfound", NoReq)
     ELSE /\ pc' = [pc EXCEPT ![p] = "d_delete"]
          /\ UNCHANGED result
          /\ req' = [req EXCEPT ![p] = [NoReq EXCEPT !.op = "delete", !.id = id]]

\* await Appointment.findByIdAndDelete(req.params.id)
DeleteRemove(p) ==
  /\ pc[p] = "d_delete"
  /\ UNCHANGED <<budget, dvars>>
  /\ UNCHANGED nextId
  /\ appts' = {a \in appts : a.id # req[p].id}
  /\ touched' = touched \cup {a.day : a \in {x \in appts : x.id = req[p].id}}
  /\ Finish(p, "ok", NoReq)

\* ============================================================ dispensary
\* ------------------------------------------------------ medicine catalogue
\* The medicines collection; the routes of the dispensary change only the
\* stock of a medicine.  findOne without a sort returns the first match in
\* the order of the collection.
Catalogue ==
  <<[name |-> "A", strength |-> "500mg", form |-> "tab"],
    [name |-> "A", strength |-> "", form |-> ""],
    [name |-> "B", strength |-> "", form |-> ""]>>

MedIds == 1..Len(Catalogue)

NoMed == 0

First(S) == CHOOSE m \in S : \A n \in S : m <= n

\* Medicine.findOne({ name, strength: it.strength || '', form: it.form || '' })
MedExact(it) ==
  {m \in MedIds : /\ Catalogue[m].name = it.name
                  /\ Catalogue[m].strength = it.strength
                  /\ Catalogue[m].form = it.form}

\* Medicine.findOne({ name: it.name })
MedByName(it) == {m \in MedIds : Catalogue[m].name = it.name}

\* a lookup that falls back to the first medicine of the collection
FindMedicineAny(it, guarded) ==
  IF MedExact(it) # {} THEN First(MedExact(it))
  ELSE IF MedByName(it) # {} THEN First(MedByName(it))
  ELSE First(MedIds)

\* the lookup of the stock loops; POST /dispenses tries the exact match only
\* for an item that has a strength or a form
FindMedicine(it, guarded) ==
  LET exact == IF guarded /\ it.strength = "" /\ it.form = ""
               THEN {} ELSE MedExact(it)
  IN  IF exact # {} THEN First(exact)
      ELSE IF MedByName(it) # {} THEN First(MedByName(it))
      ELSE NoMed

\* ------------------------------------------------------------ pure helpers
Item(n, s, f, q, u) ==
  [name |-> n, strength |-> s, form |-> f, quantity |-> q, unitPrice |-> u]

RECURSIVE Subtotal(_)
Subtotal(items) ==
  IF items = <<>> THEN 0
  ELSE Head(items).quantity * Head(items).unitPrice + Subtotal(Tail(items))

computeTotals(items, tax, discount) ==
  LET subtotal == Subtotal(items)
  IN  [subtotal |-> subtotal, total |-> Max(0, subtotal + tax - discount)]

\* a consumption that is not floored at zero
ConsumeUnclamped(stockRead, quantity) == stockRead - quantity

\* a consumption that leaves the stock as it is
ConsumeNothing(stockRead, quantity) == stockRead

\* med.stock = Math.max(0, Number(med.stock || 0) - Number(it.quantity || 0))
Consume(stockRead, quantity) == Max(0, stockRead - quantity)

\* a restoration that leaves the stock as it is
RestoreNothing(stockRead, quantity) == stockRead

\* a restoration that adds the quantity twice
RestoreTwice(stockRead, quantity) == stockRead + quantity + quantity

\* med.stock = Number(med.stock || 0) + Number(it.quantity || 0)
Restore(stockRead, quantity) == stockRead + quantity

\* a chain that turns to paid only above the total
DispenseStatusAbove(paidAmount, total) ==
  IF paidAmount > total THEN "paid"
  ELSE IF paidAmount > 0 THEN "partial"
  ELSE "pending"

\* the chain of PUT /dispenses/:id and POST /dispenses/:id/pay
DispenseStatus(paidAmount, total) ==
  IF paidAmount >= total THEN "paid"
  ELSE IF paidAmount > 0 THEN "partial"
  ELSE "pending"

\* the validators of dispenseSchema that save() runs
ValidDispense(d) ==
  /\ \A i \in 1..Len(d.items) :
       d.items[i].quantity >= 1 /\ d.items[i].unitPrice >= 0
  /\ d.subtotal >= 0
  /\ d.tax >= 0
  /\ d.discount >= 0
  /\ d.total >= 0
  /\ d.paidAmount >= 0

NoBill == 0

NoDoc ==
  [id |-> Undef, appointment |-> Undef, appointmentDay |-> Undef,
   dailyToken |-> Undef, items |-> <<>>, subtotal |-> 0,
   tax |-> 0, discount |-> 0, total |-> 0, paymentStatus |-> NoStr,
   paidAmount |-> 0, billNumber |-> NoBill, v |-> 0]

\* stock0 is history: the stock of the medicines when the request arrived;
\* btax and bdiscount are history: req.body.tax and req.body.discount of an
\* update; failed is history: a call of the stock loop of the request threw
NoDReq ==
  [op |-> "none", id |-> Undef, items |-> <<>>, tax |-> Undef,
   discount |-> Undef, btax |-> Undef, bdiscount |-> Undef, failed |-> FALSE,
   amount |-> 0, patient |-> FALSE, date |-> Undef,
   token |-> Undef, appt |-> Undef, doc |-> NoDoc, work |-> <<>>,
   med |-> NoMed, read |-> 0, after |-> NoStr,
   stock0 |-> [m \in MedIds |-> 0]]

DById(id) == CHOOSE d \in dispenses : d.id = id

DExists(id) == \E d \in dispenses : d.id = id

\* the stock adjustments of an item list, in the order of the list
Adjust(items, sign) ==
  [i \in 1..Len(items) |-> [item |-> items[i], sign |-> sign]]

\* the new items deducted before the old ones are reverted
UpdateWorkConsumeFirst(oldItems, newItems) ==
  Adjust(newItems, "consume") \o Adjust(oldItems, "restore")

\* PUT /dispenses/:id: revert old, then deduct new
UpdateWork(oldItems, newItems) ==
  Adjust(oldItems, "restore") \o Adjust(newItems, "consume")

\* a guard that lets every document through
IsCancelledNever(d) == FALSE

\* if (d.paymentStatus === 'cancelled') return res.status(400)
IsCancelled(d) == d.paymentStatus = "cancelled"

\* the values `${y}${m}${day}-${Date.now()...}-${Math.random()...}` can take
BillNumbers == 1..MaxBill

\* the billNumber index without its unique option
BillTakenNever(bill) == FALSE

\* the unique sparse index on billNumber: E11000 for a second document with
\* the same value
BillTaken(bill) == \E d \in dispenses : d.billNumber = bill

\* d.save() of a document read as snap and changed to set: the paths whose
\* value differs from the value read are written; a changed items array is
\* written under the version read, and increments it
SaveModified(cur, snap, set) ==
  [cur EXCEPT
     !.items = IF set.items # snap.items THEN set.items ELSE @,
     !.subtotal = IF set.subtotal # snap.subtotal THEN set.subtotal ELSE @,
     !.tax = IF set.tax # snap.tax THEN set.tax ELSE @,
     !.discount = IF set.discount # snap.discount THEN set.discount ELSE @,
     !.total = IF set.total # snap.total THEN set.total ELSE @,
     !.paymentStatus = IF set.paymentStatus # snap.paymentStatus
                       THEN set.paymentStatus ELSE @,
     !.paidAmount = IF set.paidAmount # snap.paidAmount
                    THEN set.paidAmount ELSE @,
     !.billNumber = IF set.billNumber # snap.billNumber
                    THEN set.billNumber ELSE @,
     !.v = IF set.items # snap.items THEN @ + 1 ELSE @]

\* the version check of a save that writes the items array
VersionError(cur, snap, set) == set.items # snap.items /\ cur.v # snap.v

NoLedger == [delta |-> [m \in MedIds |-> 0], clamped |-> FALSE]

\* the variables of the appointment routes that a dispensary step leaves alone
avars == <<nextId, pc, req, touched>>

DBegin(p) ==
  /\ dpc[p] = "idle"
  /\ budget > 0
  /\ budget' = budget - 1

DFinish(p, res) ==
  /\ dpc' = [dpc EXCEPT ![p] = "idle"]
  /\ dreq' = [dreq EXCEPT ![p] = NoDReq]
  /\ result' = res

DGoto(p, label, r) ==
  /\ dpc' = [dpc EXCEPT ![p] = label]
  /\ dreq' = [dreq EXCEPT ![p] = r]
  /\ UNCHANGED result

\* the next step of a stock loop, or the step after the loop
Advance(p, r) == DGoto(p, IF r.work = <<>> THEN r.after ELSE "s_read", r)

\* ------------------------------------------ POST /api/dispensary/dispenses
\* validation, the appointment and patient lookups, computeTotals, the bill
\* number and dispense.save()
DispenseCreate(p, b) ==
  /\ DBegin(p)
  /\ UNCHANGED <<appts, stock, ledger, avars>>
  /\ \E billNumber \in BillNumbers :
     LET byToken == b.date # Undef /\ b.token # Undef /\ b.token # 0
         found == {a \in appts : /\ a.day = truncateToDay(b.date)
                                 /\ a.token = b.token}
         ref == IF byToken /\ found # {}
                THEN (CHOOSE a \in found : TRUE).id ELSE Undef
         t == computeTotals(b.items, Num(b.tax), Num(b.discount))
         d == [id |-> nextDispId, appointment |-> ref,
               appointmentDay |-> IF byToken THEN truncateToDay(b.date)
                                  ELSE Undef,
               dailyToken |-> IF byToken THEN b.token ELSE Undef,
               items |-> b.items,
               subtotal |-> t.subtotal, tax |-> Num(b.tax),
               discount |-> Num(b.discount), total |-> t.total,
               paymentStatus |-> "pending", paidAmount |-> 0,
               billNumber |-> billNumber, v |-> 0]
     IN  IF b.items = <<>>
         THEN UNCHANGED <<dispenses, nextDispId>> /\ DFinish(p, "invalid")
         ELSE IF byToken /\ found = {}
         THEN UNCHANGED <<dispenses, nextDispId>> /\ DFinish(p, "notfound")
         ELSE IF ~byToken /\ ~b.patient
         THEN UNCHANGED <<dispenses, nextDispId>> /\ DFinish(p, "invalid")
         ELSE IF ~ValidDispense(d) \/ BillTaken(billNumber)
         THEN UNCHANGED <<dispenses, nextDispId>> /\ DFinish(p, "error")
         ELSE /\ dispenses' = dispenses \cup {d}
              /\ nextDispId' = nextDispId + 1
              /\ DGoto(p, "s_read",
                       [NoDReq EXCEPT !.op = "create", !.id = d.id,
                                      !.appt = ref, !.doc = d,
                                      !.work = Adjust(b.items, "consume"),
                                      !.stock0 = stock,
                                      !.after = "dc_mark"])

\* the findOne calls of one iteration of a stock loop
StockRead(p) ==
  /\ dpc[p] = "s_read"
  /\ UNCHANGED <<budget, appts, avars, dispenses, stock, ledger, nextDispId>>
  /\ LET r == dreq[p]
         m == FindMedicine(Head(r.work).item, r.op = "create")
     IN  IF m = NoMed
         THEN Advance(p, [r EXCEPT !.work = Tail(@)])
         ELSE DGoto(p, "s_write", [r EXCEPT !.med = m, !.read = stock[m]])

\* med.stock = ...; await med.save()
StockWrite(p) ==
  /\ dpc[p] = "s_write"
  /\ UNCHANGED <<budget, appts, avars, dispenses, nextDispId>>
  /\ LET r == dreq[p]
         w == Head(r.work)
         new == IF w.sign = "restore"
                THEN Restore(r.read, w.item.quantity)
                ELSE Consume(r.read, w.item.quantity)
     IN  /\ stock' = IF new = r.read THEN stock
                     ELSE [stock EXCEPT ![r.med] = new]
         /\ ledger' =
              [delta |-> [ledger.delta EXCEPT ![r.med] =
                            IF w.sign = "restore" THEN @ + w.item.quantity
                            ELSE @ - w.item.quantity],
               clamped |-> \/ ledger.clamped
                           \/ w.sign = "consume" /\ r.read < w.item.quantity]
         /\ Advance(p, [r EXCEPT !.work = Tail(@), !.med = NoMed, !.read = 0])

\* a catch that puts the stock back to what it was when the request arrived
StockErrorCompensate(p) ==
  /\ dpc[p] \in {"s_read", "s_write"}
  /\ UNCHANGED <<budget, appts, avars, dispenses, ledger, nextDispId>>
  /\ stock' = dreq[p].stock0
  /\ DGoto(p, dreq[p].after,
           [dreq[p] EXCEPT !.work = <<>>, !.med = NoMed, !.read = 0,
                           !.failed = TRUE])

\* a call of a stock loop throws: the catch logs it and the handler goes on
\* after the loop
StockError(p) ==
  /\ dpc[p] \in {"s_read", "s_write"}
  /\ UNCHANGED <<budget, appts, avars, dispenses, stock, ledger, nextDispId>>
  /\ DGoto(p, dreq[p].after,
           [dreq[p] EXCEPT !.work = <<>>, !.med = NoMed, !.read = 0,
                           !.failed = TRUE])

\* Appointment.findByIdAndUpdate(appointmentRef._id,
\*                               { status: 'prescription dispensed' })
DispenseCreateMark(p) ==
  /\ dpc[p] = "dc_mark"
  /\ UNCHANGED <<budget, avars, dispenses, stock, ledger, nextDispId>>
  /\ appts' = {IF a.id = dreq[p].appt
               THEN [a EXCEPT !.status = "prescription dispensed"] ELSE a :
               a \in appts}
  /\ DFinish(p, "ok")

\* -------------------------------------- PUT /api/dispensary/dispenses/:id
\* Dispense.findById, the cancelled guard, the new item list and totals
DispenseUpdateFind(p, id, b) ==
  /\ DBegin(p)
  /\ UNCHANGED <<appts, avars, dispenses, stock, ledger, nextDispId>>
  /\ IF ~DExists(id) THEN DFinish(p, "notfound")
     ELSE IF IsCancelled(DById(id)) THEN DFinish(p, "rejected")
     ELSE LET d == DById(id)
              newItems == IF b.items # <<>> THEN b.items ELSE d.items
          IN  Advance(p, [NoDReq EXCEPT
                            !.op = "update", !.id = id, !.doc = d,
                            !.items = newItems,
                            !.tax = Coalesce(b.tax, d.tax),
                            !.discount = Coalesce(b.discount, d.discount),
                            !.btax = b.tax, !.bdiscount = b.discount,
                            !.work = UpdateWork(d.items, newItems),
                            !.stock0 = stock,
                            !.after = "du_save"])

\* an update that also starts the payment over
DispenseUpdateSaveUnpaid(p) ==
  /\ dpc[p] = "du_save"
  /\ UNCHANGED <<budget, appts, avars, stock, ledger, nextDispId>>
  /\ LET r == dreq[p]
         cur == DById(r.id)
         t == computeTotals(r.items, r.tax, r.discount)
         set == [r.doc EXCEPT
                   !.items = r.items, !.tax = r.tax, !.discount = r.discount,
                   !.subtotal = t.subtotal, !.total = t.total,
                   !.paidAmount = 0,
                   !.paymentStatus = DispenseStatus(0, t.total)]
     IN  IF ~ValidDispense(set) \/ VersionError(cur, r.doc, set)
         THEN UNCHANGED dispenses /\ DFinish(p, "error")
         ELSE /\ dispenses' = (dispenses \ {cur})
                                \cup {SaveModified(cur, r.doc, set)}
              /\ DFinish(p, "ok")

\* the assignments to d, the payment status and d.save()
DispenseUpdateSave(p) ==
  /\ dpc[p] = "du_save"
  /\ UNCHANGED <<budget, appts, avars, stock, ledger, nextDispId>>
  /\ LET r == dreq[p]
         cur == DById(r.id)
         t == computeTotals(r.items, r.tax, r.discount)
         set == [r.doc EXCEPT
                   !.items = r.items, !.tax = r.tax, !.discount = r.discount,
                   !.subtotal = t.subtotal, !.total = t.total,
                   !.paymentStatus = DispenseStatus(r.doc.paidAmount, t.total)]
     IN  IF ~ValidDispense(set) \/ VersionError(cur, r.doc, set)
         THEN UNCHANGED dispenses /\ DFinish(p, "error")
         ELSE /\ dispenses' = (dispenses \ {cur})
                                \cup {SaveModified(cur, r.doc, set)}
              /\ DFinish(p, "ok")

\* ------------------------------ POST /api/dispensary/dispenses/:id/cancel
DispenseCancelFind(p, id) ==
  /\ DBegin(p)
  /\ UNCHANGED <<appts, avars, dispenses, stock, ledger, nextDispId>>
  /\ IF ~DExists(id) THEN DFinish(p, "notfound")
     ELSE IF IsCancelled(DById(id)) THEN DFinish(p, "rejected")
     ELSE LET d == DById(id)
          IN  Advance(p, [NoDReq EXCEPT
                            !.op = "cancel", !.id = id, !.doc = d,
                            !.work = Adjust(d.items, "restore"),
                            !.stock0 = stock,
                            !.after = "dx_save"])

\* d.paymentStatus = 'cancelled'; await d.save()
DispenseCancelSave(p) ==
  /\ dpc[p] = "dx_save"
  /\ UNCHANGED <<budget, appts, avars, stock, ledger, nextDispId>>
  /\ LET r == dreq[p]
         cur == DById(r.id)
         set == [r.doc EXCEPT !.paymentStatus = "cancelled"]
     IN  /\ dispenses' = (dispenses \ {cur})
                           \cup {SaveModified(cur, r.doc, set)}
         /\ DFinish(p, "ok")

\* --------------------------------- POST /api/dispensary/dispenses/:id/pay
DispensePayFind(p, id, amount) ==
  /\ DBegin(p)
  /\ UNCHANGED <<appts, avars, dispenses, stock, ledger, nextDispId>>
  /\ IF ~DExists(id) THEN DFinish(p, "notfound")
     ELSE IF IsCancelled(DById(id)) THEN DFinish(p, "rejected")
     ELSE DGoto(p, "dp_save",
                [NoDReq EXCEPT !.op = "pay", !.id = id, !.amount = amount,
                               !.doc = DById(id), !.stock0 = stock])

\* paidAmount, the payment status, the bill number and d.save()
DispensePaySave(p) ==
  /\ dpc[p] = "dp_save"
  /\ UNCHANGED <<budget, appts, avars, stock, ledger, nextDispId>>
  /\ \E billNumber \in BillNumbers :
     LET r == dreq[p]
         cur == DById(r.id)
         paidAmount == r.doc.paidAmount + r.amount
         status == DispenseStatus(paidAmount, r.doc.total)
         set == [r.doc EXCEPT
                   !.paidAmount = paidAmount,
                   !.paymentStatus = status,
                   !.billNumber = IF @ = NoBill /\ status # "pending"
                                  THEN billNumber ELSE @]
     IN  IF ~ValidDispense(set)
            \/ (set.billNumber # r.doc.billNumber /\ BillTaken(billNumber))
         THEN UNCHANGED dispenses /\ DFinish(p, "error")
         ELSE /\ dispenses' = (dispenses \ {cur})
                                \cup {SaveModified(cur, r.doc, set)}
              /\ DFinish(p, "ok")

\* ------------------------------------------------ dispensary request bodies
DispBody(items, tax, discount) ==
  [items |-> items, tax |-> tax, discount |-> discount, patient |-> TRUE,
   date |-> Undef, token |-> Undef]

ItemA(q) == Item("A", "500mg", "tab", q, 1)

\* the amounts of a pay request: isNumeric admits a negative number
PayAmounts == (0 - 1)..MaxMoney

\* the amounts of the pay requests of SpecDisp
DispPayAmounts == {1}

\* POST bodies of SpecDisp
DispCreateBodies ==
  {DispBody(<<ItemA(1)>>, Undef, Undef),
   [DispBody(<<ItemA(1)>>, Undef, Undef) EXCEPT
      !.patient = FALSE, !.date = 0, !.token = 1]}

\* PUT bodies of SpecDisp
DispUpdateBodies ==
  {DispBody(<<ItemA(MaxQty)>>, Undef, Undef), DispBody(<<>>, Undef, 1)}

\* POST bodies of SpecDispSeq
DispSeqCreateBodies ==
  {DispBody(<<ItemA(q)>>, Undef, Undef) : q \in {0, 1, MaxQty}}
    \cup {DispBody(<<>>, Undef, Undef),
          DispBody(<<ItemA(1)>>, Undef, 1),
          DispBody(<<Item("A", "", "", 1, 1)>>, Undef, Undef),
          DispBody(<<Item("C", "", "", 1, 1)>>, Undef, Undef),
          [DispBody(<<ItemA(1)>>, Undef, Undef) EXCEPT !.patient = FALSE],
          [DispBody(<<ItemA(1)>>, Undef, Undef) EXCEPT
             !.patient = FALSE, !.date = 0, !.token = 1],
          [DispBody(<<ItemA(1)>>, Undef, Undef) EXCEPT
             !.patient = FALSE, !.date = 0, !.token = 2]}

\* PUT bodies of SpecDispSeq
DispSeqUpdateBodies ==
  {DispBody(items, td[1], td[2]) :
     items \in {<<>>, <<ItemA(1)>>, <<ItemA(1), Item("B", "", "", 1, 0)>>},
     td \in {<<Undef, Undef>>, <<1, 0>>, <<Undef, 1>>}}

\* POST bodies of SpecLedger
LedgerCreateBodies == {DispBody(<<ItemA(1)>>, Undef, Undef)}

\* PUT bodies of SpecLedger
LedgerUpdateBodies == {DispBody(<<ItemA(MaxQty)>>, Undef, Undef)}

DispTargetIds == {d.id : d \in dispenses} \cup {0}

\* ================================================================ specs
\* the ids a request may name: every stored document, and 0 for the id of
\* no document
TargetIds == {a.id : a \in appts} \cup {0}

InitStore ==
  /\ appts = {}
  /\ nextId = 1
  /\ pc = [p \in Procs |-> "idle"]
  /\ req = [p \in Procs |-> NoReq]
  /\ result = "none"
  /\ touched = {}
  /\ dispenses = {}
  /\ stock = [m \in MedIds |-> MaxStock]
  /\ nextDispId = 1
  /\ dpc = [p \in Procs |-> "idle"]
  /\ dreq = [p \in Procs |-> NoDReq]
  /\ ledger = NoLedger

\* ---- Spec: concurrent creations, reschedules and deletions
Init == InitStore /\ budget = MaxReq

Step(p) ==
  \/ \E b \in CreateBodies : CreateCheck(p, b)
  \/ CreateCount(p)
  \/ CreateSave(p)
  \/ CreateSaveError(p)
  \/ \E id \in TargetIds, b \in RescheduleBodies : UpdateFind(p, id, b)
  \/ UpdateConflict(p)
  \/ UpdateCount(p)
  \/ UpdateTokenWrite(p)
  \/ UpdateTokenWriteError(p)
  \/ \E id \in TargetIds : DeleteFind(p, id)
  \/ DeleteRemove(p)

Next == \E p \in Procs : Step(p)

Spec == Init /\ [][Next]_vars

\* ---- SpecAlloc: concurrent creations and deletions
InitAlloc == InitStore /\ budget = MaxAllocReq

StepAlloc(p) ==
  \/ \E b \in AllocBodies : CreateCheck(p, b)
  \/ CreateCount(p)
  \/ CreateSave(p)
  \/ CreateSaveError(p)
  \/ \E id \in TargetIds : DeleteFind(p, id)
  \/ DeleteRemove(p)

NextAlloc == \E p \in Procs : StepAlloc(p)

SpecAlloc == InitAlloc /\ [][NextAlloc]_vars

\* ---- SpecSeq: one request at a time, the store never fails
InitSeq == InitStore /\ budget = MaxSeqReq

StepSeq(p) ==
  \/ \E b \in SeqCreateBodies : CreateCheck(p, b)
  \/ CreateCount(p)
  \/ CreateSave(p)
  \/ \E id \in TargetIds, b \in SeqUpdateBodies : UpdateFind(p, id, b)
  \/ UpdateConflict(p)
  \/ UpdateCount(p)
  \/ UpdateTokenWrite(p)
  \/ UpdateWrite(p)
  \/ \E id \in TargetIds : DeleteFind(p, id)
  \/ DeleteRemove(p)

NextSeq == StepSeq(1)

SpecSeq == InitSeq /\ [][NextSeq]_vars

\* ---- SpecDay: one request at a time, bodies that may carry appointmentDay
InitDay == InitStore /\ budget = MaxReq

StepDay(p) ==
  \/ \E b \in DayCreateBodies : CreateCheck(p, b)
  \/ CreateCount(p)
  \/ CreateSave(p)
  \/ \E id \in TargetIds, b \in DayUpdateBodies : UpdateFind(p, id, b)
  \/ UpdateConflict(p)
  \/ UpdateCount(p)
  \/ UpdateTokenWrite(p)
  \/ UpdateWrite(p)

NextDay == StepDay(1)

SpecDay == InitDay /\ [][NextDay]_vars

\* ---- SpecPay: one request at a time, bodies with payment fields
InitPay == InitStore /\ budget = MaxPayReq

StepPay(p) ==
  \/ \E b \in PayCreateBodies : CreateCheck(p, b)
  \/ CreateCount(p)
  \/ CreateSave(p)
  \/ \E id \in TargetIds, b \in PayUpdateBodies : UpdateFind(p, id, b)
  \/ UpdateConflict(p)
  \/ UpdateCount(p)
  \/ UpdateTokenCurrent(p)
  \/ UpdateTokenWrite(p)
  \/ UpdateCurrent(p)
  \/ UpdateWrite(p)

NextPay == StepPay(1)

SpecPay == InitPay /\ [][NextPay]_vars

\* ---- SpecDisp: concurrent dispensary requests, one appointment booked
InitDisp ==
  /\ appts = {NewAppointment(1, [Body(1, 0, "09:00", NoStr) EXCEPT
                                   !.day = truncateToDay(0),
                                   !.token = NextToken(0)])}
  /\ nextId = 2
  /\ pc = [p \in Procs |-> "idle"]
  /\ req = [p \in Procs |-> NoReq]
  /\ result = "none"
  /\ touched = {}
  /\ dispenses = {}
  /\ stock = [m \in MedIds |-> MaxStock]
  /\ nextDispId = 1
  /\ dpc = [p \in Procs |-> "idle"]
  /\ dreq = [p \in Procs |-> NoDReq]
  /\ ledger = NoLedger
  /\ budget = MaxDispReq

StepDisp(p) ==
  \/ \E b \in DispCreateBodies : DispenseCreate(p, b)
  \/ StockRead(p)
  \/ StockWrite(p)
  \/ StockError(p)
  \/ DispenseCreateMark(p)
  \/ \E id \in DispTargetIds, b \in DispUpdateBodies :
       DispenseUpdateFind(p, id, b)
  \/ DispenseUpdateSave(p)
  \/ \E id \in DispTargetIds : DispenseCancelFind(p, id)
  \/ DispenseCancelSave(p)
  \/ \E id \in DispTargetIds, amount \in DispPayAmounts :
       DispensePayFind(p, id, amount)
  \/ DispensePaySave(p)

NextDisp == \E p \in Procs : StepDisp(p)

SpecDisp == InitDisp /\ [][NextDisp]_vars

\* ---- SpecLedger: concurrent dispensary requests on a store that holds one
\* dispense, saved by an earlier POST /dispenses
StoredDispense ==
  [id |-> 1, appointment |-> Undef, appointmentDay |-> Undef,
   dailyToken |-> Undef, items |-> <<ItemA(1)>>,
   subtotal |-> computeTotals(<<ItemA(1)>>, 0, 0).subtotal, tax |-> 0,
   discount |-> 0, total |-> computeTotals(<<ItemA(1)>>, 0, 0).total,
   paymentStatus |-> "pending", paidAmount |-> 0, billNumber |-> 1, v |-> 0]

InitLedger ==
  /\ appts = {}
  /\ nextId = 1
  /\ pc = [p \in Procs |-> "idle"]
  /\ req = [p \in Procs |-> NoReq]
  /\ result = "none"
  /\ touched = {}
  /\ dispenses = {StoredDispense}
  /\ stock = [m \in MedIds |->
                IF m = FindMedicine(ItemA(1), TRUE)
                THEN Consume(MaxStock, 1) ELSE MaxStock]
  /\ nextDispId = 2
  /\ dpc = [p \in Procs |-> "idle"]
  /\ dreq = [p \in Procs |-> NoDReq]
  /\ ledger = [delta |-> [m \in MedIds |->
                            IF m = FindMedicine(ItemA(1), TRUE) THEN 0 - 1 ELSE 0],
               clamped |-> MaxStock < 1]
  /\ budget = MaxLedgerReq

StepLedger(p) ==
  \/ \E b \in LedgerCreateBodies : DispenseCreate(p, b)
  \/ StockRead(p)
  \/ StockWrite(p)
  \/ StockError(p)
  \/ DispenseCreateMark(p)
  \/ \E id \in DispTargetIds, b \in LedgerUpdateBodies :
       DispenseUpdateFind(p, id, b)
  \/ DispenseUpdateSave(p)
  \/ \E id \in DispTargetIds : DispenseCancelFind(p, id)
  \/ DispenseCancelSave(p)
  \/ \E id \in DispTargetIds, amount \in DispPayAmounts :
       DispensePayFind(p, id, amount)
  \/ DispensePaySave(p)

NextLedger == \E p \in Procs : StepLedger(p)

SpecLedger == InitLedger /\ [][NextLedger]_vars

\* ---- SpecDispSeq: one dispensary request at a time, the store never fails
InitDispSeq ==
  /\ appts = {NewAppointment(1, [Body(1, 0, "09:00", NoStr) EXCEPT
                                   !.day = truncateToDay(0),
                                   !.token = NextToken(0)])}
  /\ nextId = 2
  /\ pc = [p \in Procs |-> "idle"]
  /\ req = [p \in Procs |-> NoReq]
  /\ result = "none"
  /\ touched = {}
  /\ dispenses = {}
  /\ stock = [m \in MedIds |-> MaxStock]
  /\ nextDispId = 1
  /\ dpc = [p \in Procs |-> "idle"]
  /\ dreq = [p \in Procs |-> NoDReq]
  /\ ledger = NoLedger
  /\ budget = MaxDispSeqReq

StepDispSeq(p) ==
  \/ \E b \in DispSeqCreateBodies : DispenseCreate(p, b)
  \/ StockRead(p)
  \/ StockWrite(p)
  \/ DispenseCreateMark(p)
  \/ \E id \in DispTargetIds, b \in DispSeqUpdateBodies :
       DispenseUpdateFind(p, id, b)
  \/ DispenseUpdateSave(p)
  \/ \E id \in DispTargetIds : DispenseCancelFind(p, id)
  \/ DispenseCancelSave(p)
  \/ \E id \in DispTargetIds, amount \in PayAmounts :
       DispensePayFind(p, id, amount)
  \/ DispensePaySave(p)

NextDispSeq == StepDispSeq(1)

SpecDispSeq == InitDispSeq /\ [][NextDispSeq]_vars

\* ---- SpecVisit: bookings and dispense creations, one request at a time
MaxVisitReq == 3

\* POST /dispenses bodies of SpecVisit: by (date, token) and by patient
VisitDispenseBodies ==
  {[DispBody(<<ItemA(1)>>, Undef, Undef) EXCEPT
      !.patient = FALSE, !.date = dt, !.token = tk] :
     dt \in Dates, tk \in 1..2}
    \cup {DispBody(<<ItemA(1)>>, Undef, Undef)}

\* POST /appointments bodies of SpecVisit: the slot of the stored appointment
\* and the same doctor and time at the other dates
VisitBookBodies ==
  {[Body(1, dt, "09:00", NoStr) EXCEPT !.op = "create"] : dt \in Dates}

InitVisit ==
  /\ appts = {NewAppointment(1, [Body(1, 0, "09:00", NoStr) EXCEPT
                                   !.day = truncateToDay(0),
                                   !.token = NextToken(0)])}
  /\ nextId = 2
  /\ pc = [p \in Procs |-> "idle"]
  /\ req = [p \in Procs |-> NoReq]
  /\ result = "none"
  /\ touched = {}
  /\ dispenses = {}
  /\ stock = [m \in MedIds |-> MaxStock]
  /\ nextDispId = 1
  /\ dpc = [p \in Procs |-> "idle"]
  /\ dreq = [p \in Procs |-> NoDReq]
  /\ ledger = NoLedger
  /\ budget = MaxVisitReq

StepVisit(p) ==
  \/ dpc[p] = "idle" /\ \E b \in VisitBookBodies : CreateCheck(p, b)
  \/ CreateCount(p)
  \/ CreateSave(p)
  \/ pc[p] = "idle" /\ \E b \in VisitDispenseBodies : DispenseCreate(p, b)
  \/ StockRead(p)
  \/ StockWrite(p)
  \/ DispenseCreateMark(p)

NextVisit == StepVisit(1)

SpecVisit == InitVisit /\ [][NextVisit]_vars

\* =================================================================
\* scripts/backfillTokens.js
\* =================================================================
MaxBackfill == 3

\* the order of (a.appointmentTime || '').localeCompare(...) on the times of
\* the model
TimeRank(t) == IF t = "09:00" THEN 1 ELSE IF t = "10:00" THEN 2 ELSE 0

\* the position of a day in byDay: a Map keeps its keys in insertion order,
\* here the order in which find() returns the documents
DayFirst(all, dayTs) ==
  CHOOSE i \in {a.id : a \in all} :
    /\ \E a \in all : a.id = i /\ truncateToDay(a.date) = dayTs
    /\ \A a \in all : truncateToDay(a.date) = dayTs => i <= a.id

\* x is handled before y: the days in the order of byDay, within a day the
\* stable sort by appointmentTime, then by (dailyToken || 0)
BackfillBefore(all, x, y) ==
  LET dx == truncateToDay(x.date)
      dy == truncateToDay(y.date)
  IN  IF dx # dy THEN DayFirst(all, dx) < DayFirst(all, dy)
      ELSE IF x.time # y.time THEN TimeRank(x.time) < TimeRank(y.time)
      ELSE IF Num(x.token) # Num(y.token) THEN Num(x.token) < Num(y.token)
      ELSE x.id < y.id

RECURSIVE BackfillOrder(_, _)
BackfillOrder(all, rest) ==
  IF rest = {} THEN <<>>
  ELSE LET x == CHOOSE a \in rest :
                  \A b \in rest \ {a} : BackfillBefore(all, a, b)
       IN  <<x>> \o BackfillOrder(all, rest \ {x})

\* the documents as find() read them, in the order of the two loops, each
\* with the day of its list and its desiredToken = i + 1
BackfillWork(all) ==
  LET o == BackfillOrder(all, all)
  IN  [i \in 1..Len(o) |->
         [id |-> o[i].id, day |-> o[i].day, token |-> o[i].token,
          dayTs |-> truncateToDay(o[i].date),
          desired |-> Cardinality({j \in 1..i :
                        truncateToDay(o[j].date) = truncateToDay(o[i].date)})]]

\* const needsUpdate = ...
NeedsUpdate(w) ==
  \/ w.token # w.desired
  \/ w.day = Undef
  \/ truncateToDay(w.day) # w.dayTs

\* Appointment.find({}), the grouping by day and the sorts
BackfillFind(p) ==
  /\ Begin(p)
  /\ UNCHANGED <<appts, nextId, touched>>
  /\ Goto(p, "b_loop",
          [NoReq EXCEPT !.op = "backfill", !.work = BackfillWork(appts)])

\* an iteration of the inner loop on a document that needs no update
BackfillSkip(p) ==
  /\ pc[p] = "b_loop"
  /\ req[p].work # <<>>
  /\ ~NeedsUpdate(Head(req[p].work))
  /\ UNCHANGED <<budget, dvars>>
  /\ UNCHANGED <<appts, nextId, touched>>
  /\ Goto(p, "b_loop", [req[p] EXCEPT !.work = Tail(@)])

\* an iteration that calls updateOne: E11000 ends the script in its catch,
\* process.exit(1)
BackfillUpdate(p) ==
  /\ pc[p] = "b_loop"
  /\ req[p].work # <<>>
  /\ NeedsUpdate(Head(req[p].work))
  /\ UNCHANGED <<budget, dvars>>
  /\ UNCHANGED <<nextId, touched>>
  /\ LET w == Head(req[p].work) IN
     IF DupKey(w.dayTs, w.desired, w.id)
     THEN UNCHANGED appts /\ Finish(p, "error", NoReq)
     ELSE /\ appts' = {IF a.id = w.id
                       THEN [a EXCEPT !.day = w.dayTs, !.token = w.desired]
                       ELSE a : a \in appts}
          /\ Goto(p, "b_loop", [req[p] EXCEPT !.work = Tail(@)])

\* both loops are done: process.exit(0)
BackfillExit(p) ==
  /\ pc[p] = "b_loop"
  /\ req[p].work = <<>>
  /\ UNCHANGED <<budget, dvars>>
  /\ UNCHANGED <<appts, nextId, touched>>
  /\ Finish(p, "ok", NoReq)

\* ---- SpecBackfill: one run of the script on a stored collection
\* the collections of n documents the routes leave behind: appointmentDay
\* derived from appointmentDate, one document per (appointmentDay,
\* dailyToken) and per (date, time) of the one doctor, tokens in booking
\* order with the gaps of deletions
BackfillCollections(n) ==
  {c \in {{NewAppointment(i, [Body(1, f[i][1], f[i][2], NoStr) EXCEPT
                                !.day = truncateToDay(f[i][1]),
                                !.token = f[i][3]]) : i \in 1..n} :
            f \in [1..n -> Dates \X Times \X (1..MaxBackfill)]} :
     \A a, b \in c :
       a.id # b.id => /\ ~(a.day = b.day /\ a.token = b.token)
                      /\ ~(a.date = b.date /\ a.time = b.time)}

InitBackfill ==
  /\ \E n \in 0..MaxBackfill : appts \in BackfillCollections(n)
  /\ nextId = Cardinality(appts) + 1
  /\ pc = [p \in Procs |-> "idle"]
  /\ req = [p \in Procs |-> NoReq]
  /\ result = "none"
  /\ touched = {}
  /\ dispenses = {}
  /\ stock = [m \in MedIds |-> MaxStock]
  /\ nextDispId = 1
  /\ dpc = [p \in Procs |-> "idle"]
  /\ dreq = [p \in Procs |-> NoDReq]
  /\ ledger = NoLedger
  /\ budget = 1

StepBackfill(p) ==
  \/ BackfillFind(p)
  \/ BackfillSkip(p)
  \/ BackfillUpdate(p)
  \/ BackfillExit(p)

NextBackfill == StepBackfill(1)

SpecBackfill == InitBackfill /\ [][NextBackfill]_vars

\* =================================================================
\* Properties of the appointment routes
\* =================================================================
Days == {truncateToDay(d) : d \in Dates}

OnDay(day) == {a \in appts : a.day = day}

Active(a) == a.status \in {"scheduled", "confirmed"}

SameSlot(a, b) == a.doctor = b.doctor /\ a.date = b.date /\ a.time = b.time

\* the proposed token of p's request is the key of a stored document
Taken(p) ==
  \E a \in appts : a.day = req[p].day /\ a.token = req[p].token

\* C1: in every reachable state, under any interleaving of concurrent
\* creations, reschedules and deletions, no two stored appointments share the
\* same (appointmentDay, dailyToken) pair.
C1_UniqueDayToken ==
  \A a, b \in appts : a.id # b.id => ~(a.day = b.day /\ a.token = b.token)

\* two documents on a day while a third request has lost a race for a token
\* of that day and is retrying
C1_Witness ==
  \E a, b \in appts :
    /\ a.id # b.id
    /\ a.day = b.day
    /\ \E p \in Procs :
         /\ pc[p] \in {"c_count", "u_count"}
         /\ req[p].attempt >= 1
         /\ req[p].day = a.day

\* C2: after any sequence of non-overlapping appointment operations at most
\* one appointment with status scheduled or confirmed exists for any
\* (doctor, appointmentDate, appointmentTime).
C2_OneActivePerSlot ==
  (\A p \in Procs : pc[p] = "idle") =>
    \A a, b \in appts :
      (a.id # b.id /\ Active(a) /\ Active(b)) => ~SameSlot(a, b)

\* C3: of two bookings of one slot in sequence, the second is rejected with
\* nothing written when an active appointment holds the slot, and succeeds
\* when the appointments that hold the slot are cancelled.
C3_Rejected(p) ==
  /\ (pc[p] = "idle" /\ pc'[p] = "c_count") =>
       ~\E a \in appts : Active(a) /\ SameSlot(a, req'[p])
  /\ (pc[p] = "idle" /\ pc'[p] = "idle" /\ budget' # budget
        /\ result' = "conflict") =>
       (appts' = appts /\ nextId' = nextId)

C3_Accepted(p) ==
  (/\ pc[p] = "c_save"
   /\ pc'[p] = "idle"
   /\ \E a \in appts : a.status = "cancelled" /\ SameSlot(a, req[p])) =>
    (/\ result' = "ok"
     /\ \E n \in appts' \ appts : SameSlot(n, req[p]) /\ Active(n))

C3_SecondBooking ==
  [][\A p \in Procs : C3_Rejected(p) /\ C3_Accepted(p)]_vars

\* the rejecting half of C3 alone
C3_RejectedOnly == [][\A p \in Procs : C3_Rejected(p)]_vars

\* C4: the token allocator of creation makes at most 3 attempts, each
\* recomputes the count of the day and proposes count + 1, it retries only on
\* a uniqueness violation, another store error aborts at once, after 3
\* violations it answers with the allocation failure and nothing was
\* persisted, and the loop terminates.
C4_Rank(label, r) ==
  2 * (3 - r.attempt) - (IF label = "c_save" THEN 1 ELSE 0)

C4_InLoop(label) == label \in {"c_count", "c_save"}

C4_State ==
  \A p \in Procs :
    C4_InLoop(pc[p]) =>
      /\ req[p].attempt \in 0..2
      /\ ENABLED (CreateCount(p) \/ CreateSave(p))

C4_Step(p) ==
  /\ (pc[p] = "c_count" /\ pc'[p] # "c_count") =>
       /\ pc'[p] = "c_save"
       /\ req'[p].token = Cardinality(OnDay(req[p].day)) + 1
       /\ req'[p].attempt = req[p].attempt
       /\ appts' = appts
  /\ (pc[p] = "c_save" /\ pc'[p] = "c_count") =>
       /\ Taken(p)
       /\ req'[p].attempt = req[p].attempt + 1
       /\ appts' = appts
  /\ (pc[p] = "c_save" /\ pc'[p] = "idle") =>
       \/ /\ result' = "ok"
          /\ ~Taken(p)
          /\ Cardinality(appts') = Cardinality(appts) + 1
          /\ \E n \in appts' \ appts :
               n.day = req[p].day /\ n.token = req[p].token
       \/ /\ result' = "tokenfail"
          /\ Taken(p)
          /\ req[p].attempt = 2
          /\ appts' = appts
       \/ /\ result' = "error"
          /\ appts' = appts
  /\ (C4_InLoop(pc[p]) /\ C4_InLoop(pc'[p]) /\ pc'[p] # pc[p]) =>
       C4_Rank(pc'[p], req'[p]) < C4_Rank(pc[p], req[p])

C4_BoundedRetry == []C4_State /\ [][\A p \in Procs : C4_Step(p)]_vars

\* a creation answered with the allocation failure
C4_Witness == result = "tokenfail"

\* C5: with no other request running, a booking or reschedule that passes
\* the checks is assigned a token and persisted, whatever the history of the
\* day; the allocation failure needs a concurrent writer.
C5_NoFailureAlone ==
  [][\A p \in Procs :
       (pc[p] \in {"c_save", "u_twrite"} /\ pc'[p] = "idle") =>
         result' # "tokenfail"]_vars

\* C6: on a day with creations only (no deletion, no reschedule into or out
\* of it) the tokens of the n stored appointments are exactly 1..n, also
\* when the creations ran concurrently.
C6_Gapless ==
  \A day \in Days \ touched :
    {a.token : a \in OnDay(day)} = 1..Cardinality(OnDay(day))

\* three documents on a day of creations only: two of them raced for a slot
C6_Witness ==
  \E day \in Days \ touched : Cardinality(OnDay(day)) >= 3

\* C7: with no other request running, a reschedule to another day succeeds
\* with appointmentDay the new day and a token unique within it.
C7_RescheduleGetsToken ==
  [][\A p \in Procs :
       (/\ pc[p] = "u_twrite"
        /\ pc'[p] = "idle"
        /\ Exists(req[p].id)
        /\ ById(req[p].id).day # req[p].day) =>
         (/\ result' = "ok"
          /\ \E n \in appts' :
               /\ n.id = req[p].id
               /\ n.day = truncateToDay(req[p].date)
               /\ \A o \in appts' :
                    (o.id # n.id /\ o.day = n.day) => o.token # n.token)]_vars

\* C8: payable = max(0, amount - discount); paid <= 0 pending, 0 < paid <
\* payable partial, paid >= payable with paid > 0 paid; the status stored by
\* creation and update is this function of paymentOnline + paymentOffline.
C8_derive(paid, amount, discount) ==
  LET payable == IF amount - discount > 0 THEN amount - discount ELSE 0
  IN  CASE paid <= 0 -> "pending"
        [] paid > 0 /\ paid < payable -> "partial"
        [] paid > 0 /\ paid >= payable -> "paid"

C9_SameStatusFunction ==
  \A d \in dispenses :
    (d.paymentStatus # "cancelled" /\ d.paidAmount >= 0)
      => d.paymentStatus = PaymentStatus(d.paidAmount, d.total, 0)

\* C10: once a dispense has paymentStatus = cancelled, no step of any
\* request, running later or at the same time, stores another paymentStatus
\* on it.
C10_CancelledIsTerminal ==
  [][\A d \in dispenses :
       d.paymentStatus = "cancelled"
         => \A e \in dispenses' : e.id = d.id => e.paymentStatus = "cancelled"]_vars

\* ------------------------------------------------------------------ C11
\* C11: an update, pay or cancel request on a dispense whose stored
\* paymentStatus is cancelled is rejected, and the rejected request changes
\* nothing: the dispenses (items, totals, paidAmount, billNumber,
\* paymentStatus) and the stock of every medicine are as before.
C11_RejectedChangesNothing ==
  [][/\ \A p \in Procs :
          (/\ dpc[p] = "idle"
           /\ dpc'[p] # "idle"
           /\ dreq'[p].op \in {"update", "pay", "cancel"})
            => DById(dreq'[p].id).paymentStatus # "cancelled"
     /\ (budget' # budget /\ dpc' = dpc /\ result' = "rejected")
            => /\ dispenses' = dispenses
               /\ stock' = stock
               /\ \E d \in dispenses : d.paymentStatus = "cancelled"]_vars

\* a request on a cancelled dispense has been rejected
C11_Witness ==
  /\ result = "rejected"
  /\ \E d \in dispenses : d.paymentStatus = "cancelled"
  /\ \A p \in Procs : dpc[p] = "idle"

\* ------------------------------------------------------------------ C12
\* C12: the stock of every medicine is >= 0 in every reachable state, under
\* every interleaving of dispense create, update and cancel; a consumption
\* larger than the stock it read writes 0, and the handler goes on to its
\* next step instead of failing.
C12_StockNeverNegative ==
  /\ [](\A m \in MedIds : stock[m] >= 0)
  /\ [][\A p \in Procs :
          (/\ dpc[p] = "s_write"
           /\ dreq'[p] # dreq[p]
           /\ ledger' # ledger
           /\ Head(dreq[p].work).sign = "consume"
           /\ dreq[p].read < Head(dreq[p].work).item.quantity
           /\ stock[dreq[p].med] = dreq[p].read)
            => /\ stock'[dreq[p].med] = 0
               /\ dpc'[p] \in {"s_read", dreq[p].after}]_vars

\* a dispense operation has finished after one of its consumptions was
\* floored at zero
C12_Witness ==
  /\ ledger.clamped
  /\ result = "ok"
  /\ \A p \in Procs : dpc[p] = "idle"
  /\ \E m \in MedIds : stock[m] = 0

\* ------------------------------------------------------------------ C13
\* the stock when nothing has been dispensed
C13_FullStock == [m \in MedIds |-> MaxStock]

\* the store holds the one dispense ever saved, with its one item as created,
\* of a quantity within the stock and a name of the catalogue, and no request
\* is running
C13_Case(d) ==
  /\ \A p \in Procs : dpc[p] = "idle"
  /\ nextDispId = 2
  /\ d.v = 0
  /\ Len(d.items) = 1
  /\ MedByName(d.items[1]) # {}
  /\ d.items[1].quantity <= MaxStock

C13_RoundTripOf(d) ==
  IF d.paymentStatus = "cancelled"
  THEN stock = C13_FullStock
  ELSE \E m \in MedIds :
         stock = [C13_FullStock EXCEPT ![m] = MaxStock - d.items[1].quantity]

\* C13: creating a dispense with an item of quantity q against a matched
\* medicine with stock s >= q sets its stock to s - q, cancelling the dispense
\* returns the stock to s, and a second cancel leaves it at s.
C13_RoundTrip == \A d \in dispenses : C13_Case(d) => C13_RoundTripOf(d)

\* the round trip of an item that has a strength or a form
C13_RoundTripExactItem ==
  \A d \in dispenses :
    (C13_Case(d) /\ (d.items[1].strength # "" \/ d.items[1].form # ""))
      => C13_RoundTripOf(d)

\* ------------------------------------------------------------------ C14
\* the sum of the quantities of the items of a list that resolve to medicine m
RECURSIVE C14_Sum(_, _)
C14_Sum(items, m) ==
  IF items = <<>> THEN 0
  ELSE (IF FindMedicine(Head(items), FALSE) = m
        THEN Head(items).quantity ELSE 0) + C14_Sum(Tail(items), m)

\* no consumption of the update is floored at zero
C14_NoClamp(before, oldItems, newItems) ==
  \A m \in MedIds :
    before[m] + C14_Sum(oldItems, m) >= C14_Sum(newItems, m)

\* C14: after the stock adjustment of an update from an old item list to a
\* new one, the stock of each matched medicine is its stock before the update
\* plus its quantities in the old list minus its quantities in the new list,
\* whenever no consumption is floored at zero.
C14_Reconciliation ==
  \A p \in Procs :
    (/\ dpc[p] = "du_save"
     /\ C14_NoClamp(dreq[p].stock0, dreq[p].doc.items, dreq[p].items))
      => \A m \in MedIds :
           stock[m] = dreq[p].stock0[m] + C14_Sum(dreq[p].doc.items, m)
                        - C14_Sum(dreq[p].items, m)

\* an update is about to save a new item list that moved the stock
C14_Witness ==
  \E p \in Procs :
    /\ dpc[p] = "du_save"
    /\ dreq[p].items # dreq[p].doc.items
    /\ C14_NoClamp(dreq[p].stock0, dreq[p].doc.items, dreq[p].items)
    /\ stock # dreq[p].stock0

\* ------------------------------------------------------------------ C15
\* C15: during a dispense update every restore of the old item list is
\* applied before the first consume of the new item list: among the stock
\* adjustments the update still has to apply, no restore comes after a
\* consume.
C15_RevertThenReapply ==
  \A p \in Procs :
    dreq[p].op = "update"
      => \A i, j \in 1..Len(dreq[p].work) :
           (i < j /\ dreq[p].work[i].sign = "consume")
             => dreq[p].work[j].sign # "restore"

\* an update has restored its old items and is about to apply its first
\* consume
C15_Witness ==
  \E p \in Procs :
    /\ dreq[p].op = "update"
    /\ dpc[p] = "s_write"
    /\ Head(dreq[p].work).sign = "consume"
    /\ Len(dreq[p].work) = Len(dreq[p].items)
    /\ \E m \in MedIds : stock[m] > dreq[p].stock0[m]

\* ------------------------------------------------------------------ C16
\* C16: when dispense operations that touch the same medicine run at the same
\* time no delta is lost: once they are done, and no consumption was floored
\* at zero, the stock of every medicine is its initial stock minus all the
\* quantities consumed plus all the quantities restored.
C16_NoDeltaLost ==
  (/\ \A p \in Procs : dpc[p] = "idle"
   /\ ~ledger.clamped)
    => \A m \in MedIds : stock[m] = MaxStock + ledger.delta[m]

\* ------------------------------------------------------------------ C17
\* C17: a dispense is cancelled at most once, also when two cancel requests
\* for it overlap: a cancel request succeeds only on a dispense that is not
\* cancelled yet, so exactly one of them succeeds and the stock is restored
\* once.
C17_CancelledAtMostOnce ==
  [][\A p \in Procs :
        (/\ dpc[p] = "dx_save"
         /\ dpc'[p] = "idle"
         /\ result' = "ok")
          => DById(dreq[p].id).paymentStatus # "cancelled"]_vars

\* ------------------------------------------------------------------ C18
\* the stock after the items of a list are consumed one after the other, each
\* from the medicine it resolves to: the exact match, else the match by name
\* (guarded = FALSE), or as POST /dispenses resolves it (guarded = TRUE)
RECURSIVE C18_Consumed(_, _, _)
C18_Consumed(st, items, guarded) ==
  IF items = <<>> THEN st
  ELSE LET m == FindMedicine(Head(items), guarded)
           next == IF m = NoMed THEN st
                   ELSE [st EXCEPT ![m] = Consume(st[m], Head(items).quantity)]
       IN  C18_Consumed(next, Tail(items), guarded)

C18_Created(p, guarded) ==
  (dpc[p] = "dc_mark" /\ dreq[p].op = "create")
    => /\ DById(dreq[p].id).paymentStatus = "pending"
       /\ DById(dreq[p].id).paidAmount = 0
       /\ stock = C18_Consumed(dreq[p].stock0, dreq[p].doc.items, guarded)

\* C18: immediately after a dispense is created it is pending with paidAmount
\* 0, and the stock of every medicine matched by an item (exact match, else
\* by name) is reduced by the item quantity, floored at zero.
C18_AfterCreation == \A p \in Procs : C18_Created(p, FALSE)

\* the same with each item resolved as POST /dispenses resolves it
C18_AfterCreationOwnLookup == \A p \in Procs : C18_Created(p, TRUE)

\* ------------------------------------------------------------------ C19
\* C19: bill numbers are assigned lazily: a dispense that is pending with
\* paidAmount 0, as it is right after its creation, has no bill number; the
\* pay operation that moves it out of pending gives it one.
C19_LazyBillNumber ==
  /\ \A d \in dispenses :
        (d.paymentStatus = "pending" /\ d.paidAmount = 0)
          => d.billNumber = NoBill
  /\ \A d \in dispenses :
        d.paymentStatus \in {"partial", "paid"} => d.billNumber # NoBill

\* a dispense that left pending holds a bill number
C19_BillAfterPayment ==
  \A d \in dispenses :
    d.paymentStatus \in {"partial", "paid"} => d.billNumber # NoBill

\* ------------------------------------------------------------------ C20
\* C20: a bill number is unique and immutable once set: no two dispenses ever
\* hold the same bill number, and no pay, update or cancel changes or clears
\* the bill number a dispense holds.
C20_BillImmutableUnique ==
  /\ [](\A d1, d2 \in dispenses :
          (d1.id # d2.id /\ d1.billNumber # NoBill)
            => d1.billNumber # d2.billNumber)
  /\ [][\A d \in dispenses :
          d.billNumber # NoBill
            => \E e \in dispenses' : e.id = d.id /\ e.billNumber = d.billNumber]_vars

\* two dispenses hold bill numbers, and one of them has been paid on,
\* cancelled or updated since
C20_Witness ==
  /\ \A p \in Procs : dpc[p] = "idle"
  /\ Cardinality(dispenses) > 1
  /\ \A d \in dispenses : d.billNumber # NoBill
  /\ \E d \in dispenses :
        d.paidAmount > 0 \/ d.paymentStatus = "cancelled" \/ d.v > 0

\* ------------------------------------------------------------------ C21
\* C21: the paidAmount of a dispense is never negative, and while the dispense
\* is not cancelled no step stores a paidAmount lower than the one stored
\* before.
C21_PaidAmountMonotone ==
  /\ [](\A d \in dispenses : d.paidAmount >= 0)
  /\ [][\A d \in dispenses :
          d.paymentStatus # "cancelled"
            => \A e \in dispenses' :
                 e.id = d.id => e.paidAmount >= d.paidAmount]_vars

\* the stored paidAmount is never negative
C21_PaidAmountNonNegative == \A d \in dispenses : d.paidAmount >= 0

\* ------------------------------------------------------------------ C22
\* C22: a pay request accepted on a dispense that is not cancelled adds the
\* amount to paidAmount and stores the status of the new paidAmount against
\* the total: paid once paidAmount >= total, partial while
\* 0 < paidAmount < total, pending otherwise; a dispense can be paid on again.
C22_PayAddsAndRecomputes ==
  [][\A p \in Procs :
        (/\ dpc[p] = "dp_save"
         /\ dpc'[p] = "idle"
         /\ result' = "ok")
          => \E d \in dispenses, e \in dispenses' :
               /\ d.id = dreq[p].id
               /\ e.id = d.id
               /\ d.paymentStatus # "cancelled"
               /\ e.paidAmount = d.paidAmount + dreq[p].amount
               /\ e.total = d.total
               /\ e.paymentStatus =
                    IF e.paidAmount >= e.total THEN "paid"
                    ELSE IF e.paidAmount > 0 THEN "partial"
                    ELSE "pending"]_vars

\* a dispense was paid on more than once and is paid
C22_Witness ==
  /\ \A p \in Procs : dpc[p] = "idle"
  /\ result = "ok"
  /\ \E d \in dispenses :
       /\ d.paidAmount > MaxMoney
       /\ d.total > 1
       /\ d.paymentStatus = "paid"

\* ------------------------------------------------------------------ C23
\* the totals of a stored dispense agree with its items, tax and discount
C23_TotalsOf(d) ==
  /\ d.subtotal = Subtotal(d.items)
  /\ d.total = (IF d.subtotal + d.tax - d.discount > 0
                THEN d.subtotal + d.tax - d.discount ELSE 0)

C24_CancelFrame ==
  [][/\ \A p \in Procs :
          (/\ dpc[p] = "dx_save"
           /\ dpc'[p] = "idle"
           /\ result' = "ok")
            => \E d \in dispenses :
                 /\ d.id = dreq[p].id
                 /\ d.paymentStatus \in {"pending", "partial", "paid"}
                 /\ dispenses' = (dispenses \ {d})
                      \cup {[d EXCEPT !.paymentStatus = "cancelled"]}
                 /\ \A m \in MedIds :
                      stock'[m] = dreq[p].stock0[m] + C14_Sum(d.items, m)
     /\ \A p \in Procs :
          (/\ dpc[p] = "idle"
           /\ dpc'[p] = "idle"
           /\ budget' # budget
           /\ result' = "rejected")
            => \E d \in dispenses : d.paymentStatus = "cancelled"]_vars

\* a dispense that was paid on is cancelled and keeps its paidAmount and its
\* bill number
C24_Witness ==
  /\ \A p \in Procs : dpc[p] = "idle"
  /\ result = "ok"
  /\ \E d \in dispenses :
       /\ d.paymentStatus = "cancelled"
       /\ d.paidAmount > 0
       /\ d.billNumber # NoBill
       /\ d.items # <<>>
  /\ \A m \in MedIds : stock[m] = MaxStock

\* ------------------------------------------------------------------ C25
\* the medicine a stock loop is about to adjust for the item at hand is the
\* exact (name, strength, form) match when there is one, else a match by name
C25_Resolved(p) ==
  LET it == Head(dreq[p].work).item
  IN  IF MedExact(it) # {} THEN dreq[p].med \in MedExact(it)
      ELSE dreq[p].med \in MedByName(it)

\* C25: in create, update and cancel the medicine adjusted for an item is the
\* one matching the item's exact (name, strength, form), and only when there
\* is none the one matching by name; an item resolves to the same medicine
\* in the three paths.
C25_SameResolution ==
  \A p \in Procs : dpc[p] = "s_write" => C25_Resolved(p)

\* the same for the update and cancel paths alone
C25_UpdateCancelResolution ==
  \A p \in Procs :
    (dpc[p] = "s_write" /\ dreq[p].op # "create") => C25_Resolved(p)

\* ------------------------------------------------------------------ C26
\* C26: an item that matches no medicine is a no-op for the ledger: the stock
\* loop goes on to its next item with the stock of every medicine as it was,
\* the set of medicines is the same throughout, and the create, update or
\* cancel request ends with success.
C26_UnmatchedIsNoOp ==
  [][/\ \A p \in Procs :
          (/\ dpc[p] = "s_read"
           /\ dreq'[p] # dreq[p]
           /\ MedByName(Head(dreq[p].work).item) = {})
            => /\ stock' = stock
               /\ DOMAIN stock' = MedIds
               /\ dreq'[p].work = Tail(dreq[p].work)
               /\ dpc'[p] = IF dreq'[p].work = <<>>
                            THEN dreq[p].after ELSE "s_read"
     /\ \A p \in Procs :
          (/\ dpc[p] \in {"dc_mark", "du_save", "dx_save"}
           /\ dpc'[p] = "idle"
           /\ \A i \in 1..Len(dreq[p].doc.items) :
                MedByName(dreq[p].doc.items[i]) = {})
            => result' = "ok"]_vars

\* a dispense of an item that matches no medicine was created and cancelled,
\* and no stock moved
C26_Witness ==
  /\ \A p \in Procs : dpc[p] = "idle"
  /\ result = "ok"
  /\ \A m \in MedIds : stock[m] = MaxStock
  /\ \E d \in dispenses :
       /\ d.paymentStatus = "cancelled"
       /\ d.items # <<>>
       /\ \A i \in 1..Len(d.items) : MedByName(d.items[i]) = {}

\* ------------------------------------------------------------------ C27
\* C27: in every stored appointment appointmentDay is appointmentDate with
\* the time of day zeroed; an appointmentDay that the caller supplied never
\* ends up stored.
C27_DayDerived ==
  \A a \in appts : a.day = a.date - (a.date % DayLength)

\* the appointmentDay of an appointment whose day was never written by an
\* update is derived from its date
C27_DayDerivedAtCreation ==
  [][\A a \in appts' :
       (\A x \in appts : x.id # a.id)
         => a.day = a.date - (a.date % DayLength)]_vars

\* ------------------------------------------------------------------ C28
\* another scheduled or confirmed appointment holds the effective doctor,
\* date and time of the update request of p: each supplied value, else the
\* stored one
C28_OtherHoldsSlot(p) ==
  LET r == req[p]
      cur == CHOOSE a \in appts : a.id = r.id
      doctor == IF r.doctor = Undef THEN cur.doctor ELSE r.doctor
      date == IF r.date = Undef THEN cur.date ELSE r.date
      time == IF r.time = NoStr THEN cur.time ELSE r.time
  IN  \E a \in appts :
        /\ a.id # r.id
        /\ a.doctor = doctor /\ a.date = date /\ a.time = time
        /\ a.status \in {"scheduled", "confirmed"}

\* C28: an update runs the conflict check whenever doctor, appointmentDate or
\* appointmentTime is in its body, and the check rejects the update exactly
\* when another scheduled or confirmed appointment holds the effective
\* triple; the appointment being updated never conflicts with itself.
C28_UpdateConflictCheck ==
  [][\A p \in Procs :
        /\ (/\ pc[p] = "idle"
            /\ pc'[p] # "idle"
            /\ req'[p].op = "update")
             => (pc'[p] = "u_conflict"
                   <=> \/ req'[p].doctor # Undef
                       \/ req'[p].date # Undef
                       \/ req'[p].time # NoStr)
        /\ (pc[p] = "u_conflict" /\ pc'[p] # "u_conflict")
             => /\ (pc'[p] = "idle") <=> C28_OtherHoldsSlot(p)
                /\ pc'[p] = "idle" => result' = "conflict" /\ appts' = appts]_vars

\* the conflict check of an update passed on the slot that the appointment
\* itself holds as scheduled or confirmed
C28_Witness ==
  \E p \in Procs :
    /\ pc[p] = "u_count"
    /\ \E a \in appts :
         /\ a.id = req[p].id
         /\ a.date = req[p].date
         /\ a.status \in {"scheduled", "confirmed"}
         /\ \E b \in appts : b.id # a.id /\ b.doctor = a.doctor /\ b.time = a.time

\* ------------------------------------------------------------------ C29
\* C29: of two concurrent bookings for the same doctor, appointmentDate and
\* appointmentTime that both pass the conflict check, one is accepted and the
\* other is not: no two stored appointments booked for the same slot are both
\* scheduled or confirmed.
C29_OneOfTwoAccepted ==
  \A a, b \in appts :
    (/\ a.id # b.id
     /\ a.doctor = b.doctor /\ a.date = b.date /\ a.time = b.time)
      => ~(a.status \in {"scheduled", "confirmed"}
             /\ b.status \in {"scheduled", "confirmed"})

\* two bookings for the same slot are past the conflict check at the same
\* time
C29_BothPassCheck ==
  \E p, q \in Procs :
    /\ p # q
    /\ pc[p] \in {"c_count", "c_save"}
    /\ pc[q] \in {"c_count", "c_save"}
    /\ req[p].doctor = req[q].doctor
    /\ req[p].date = req[q].date
    /\ req[p].time = req[q].time

\* ------------------------------------------------------------------ C30
\* the status of the effective payment values of the update request of p on
\* the stored appointment d: each supplied value, else the stored one, the
\* amount being the fee of the new doctor when a doctor is supplied without
\* an amount
C30_Effective(p, d) ==
  LET r == req[p]
      paid == (IF r.pOn = Undef THEN d.pOn ELSE r.pOn)
                + (IF r.pOff = Undef THEN d.pOff ELSE r.pOff)
      amount == IF r.amount0 # Undef THEN r.amount0
                ELSE IF r.doctor # Undef THEN ConsultationFee(r.doctor)
                ELSE IF d.amount = Undef THEN 0 ELSE d.amount
      discount == IF r.discount = Undef THEN d.discount ELSE r.discount
  IN  [amount |-> amount, status |-> C8_derive(paid, amount, discount)]

\* C30: after every update that supplies paymentOnline, paymentOffline,
\* amount or discount, or that supplies a doctor without an amount, with or
\* without a new date, the stored paymentStatus is the status of the
\* effective paid sum, amount and discount, and the amount of a reassigned
\* appointment without a supplied amount is the fee of the new doctor.
C30_RecomputedOnUpdate ==
  [][\A p \in Procs :
        (/\ pc[p] \in {"u_write", "u_twrite"}
         /\ pc'[p] = "idle"
         /\ result' = "ok"
         /\ \/ req[p].pOn # Undef \/ req[p].pOff # Undef
            \/ req[p].amount0 # Undef \/ req[p].discount # Undef
            \/ req[p].doctor # Undef)
          => \E d \in appts, e \in appts' :
               /\ d.id = req[p].id
               /\ e.id = d.id
               /\ e.payStatus = C30_Effective(p, d).status
               /\ (req[p].amount0 # Undef \/ req[p].doctor # Undef)
                    => e.amount = C30_Effective(p, d).amount]_vars

\* an appointment was moved to another date by an update that also paid it
\* in full
C30_Witness ==
  /\ \A p \in Procs : pc[p] = "idle"
  /\ result = "ok"
  /\ \E a \in appts :
       /\ a.date = DayLength
       /\ a.pOn + a.pOff > 0
       /\ a.payStatus = "paid"
       /\ a.doctor = 1

\* ------------------------------------------------------------------ C31
\* C31: a store error in a stock loop does not abort the create, update or
\* cancel request: the step that catches it and every later step of the
\* request leave the stock as it is (the adjustments made before the error
\* are kept, the remaining ones are skipped, nothing is put back), and the
\* request completes: the created dispense stays saved, the cancelled one is
\* marked cancelled, the updated one has its new items saved unless another
\* update saved its items in between.
C31_StockErrorTolerated ==
  [][\A p \in Procs :
        /\ (~dreq[p].failed /\ dreq'[p].failed)
             => /\ stock' = stock
                /\ dispenses' = dispenses
                /\ dpc'[p] = dreq[p].after
                /\ dreq'[p].work = <<>>
        /\ (dreq[p].failed /\ dreq'[p] # dreq[p])
             => /\ stock' = stock
                /\ dpc'[p] = "idle"
                /\ \E e \in dispenses' :
                     /\ e.id = dreq[p].id
                     /\ dreq[p].op = "create" => result' = "ok"
                     /\ dreq[p].op = "cancel"
                          => result' = "ok" /\ e.paymentStatus = "cancelled"
                     /\ dreq[p].op = "update"
                          => \/ /\ result' = "ok"
                                /\ dreq[p].items # dreq[p].doc.items
                                     => e.items = dreq[p].items
                             \/ /\ result' = "error"
                                /\ e.v # dreq[p].doc.v
                                /\ dispenses' = dispenses]_vars

\* the one request that ran cancelled the stored dispense, and the stock it
\* had consumed was not restored
C31_Witness ==
  /\ \A p \in Procs : dpc[p] = "idle"
  /\ result = "ok"
  /\ budget = MaxLedgerReq - 1
  /\ dispenses = {[StoredDispense EXCEPT !.paymentStatus = "cancelled"]}
  /\ \A m \in MedIds : stock[m] = MaxStock + NoLedger.delta[m]
                                    - C14_Sum(StoredDispense.items, m)

\* ------------------------------------------------------------------ C32
\* C32: with at most 3 creations running concurrently for a day (there are
\* never more than NProcs requests in flight) and no deletion or reschedule
\* touching the day, no creation ends with the token-allocation failure.
C32_NoFailureUpToThree ==
  [][\A p \in Procs :
       (/\ pc[p] = "c_save"
        /\ pc'[p] = "idle"
        /\ NProcs <= MaxAttempts
        /\ req[p].day \notin touched) => result' # "tokenfail"]_vars

\* C32 for at most 3 requests in all: on a day that no deletion or
\* reschedule touched, the token proposed by a third attempt is free and no
\* creation ends with the token-allocation failure.
C32_ThreeInAll ==
  (MaxAllocReq - budget <= MaxAttempts) =>
    /\ \A p \in Procs :
         (/\ pc[p] = "c_save"
          /\ req[p].attempt = MaxAttempts - 1
          /\ req[p].day \notin touched)
           => ~DupKey(req[p].day, req[p].token, Undef)
    /\ result # "tokenfail"

\* the third attempt of the third creation of the day, after two collisions
C32_Witness ==
  /\ MaxAllocReq - budget = MaxAttempts
  /\ \E p \in Procs :
       /\ pc[p] = "c_save"
       /\ req[p].attempt = MaxAttempts - 1
       /\ req[p].day \notin touched
       /\ req[p].token = MaxAttempts
       /\ Cardinality(OnDay(req[p].day)) = MaxAttempts - 1

\* ------------------------------------------------------------------ C33
\* C33: in every reachable state the paymentStatus of every non-cancelled
\* dispense agrees with its stored paidAmount and total: paid iff
\* paidAmount >= total, otherwise partial iff paidAmount > 0, otherwise
\* pending; also when a pay and an update of the same dispense interleave.
C33_StatusConsistent ==
  \A d \in dispenses :
    ~IsCancelled(d) =>
      d.paymentStatus = (IF d.paidAmount >= d.total THEN "paid"
                         ELSE IF d.paidAmount > 0 THEN "partial"
                         ELSE "pending")

\* ------------------------------------------------------------------ C34
\* the quantities of the items of the non-cancelled dispenses of a set that
\* resolve to medicine m
RECURSIVE C34_Held(_, _)
C34_Held(ds, m) ==
  IF ds = {} THEN 0
  ELSE LET d == CHOOSE e \in ds : TRUE
       IN  (IF IsCancelled(d) THEN 0 ELSE C14_Sum(d.items, m))
             + C34_Held(ds \ {d}, m)

\* C34: between non-overlapping create, update and cancel requests, as long
\* as no consumption was floored at zero, the stock of every medicine plus
\* the quantities of the items of the non-cancelled dispenses that resolve to
\* it is what it was at the start.
C34_StockConserved ==
  (/\ \A p \in Procs : dpc[p] = "idle"
   /\ ~ledger.clamped)
    => \A m \in MedIds : stock[m] + C34_Held(dispenses, m) = MaxStock

\* ------------------------------------------------------------------ C35
\* no step of the update request of p changes the appointmentDay or the
\* dailyToken of the appointment it updates
C35_KeepsDayAndToken(p) ==
  \A a \in appts, n \in appts' :
    (a.id = req[p].id /\ n.id = a.id) => (n.day = a.day /\ n.token = a.token)

\* C35: an update whose body has no appointmentDate leaves the appointmentDay
\* and the dailyToken of the appointment unchanged.
C35_NoDateKeepsToken ==
  [][\A p \in Procs :
       (req[p].op = "update" /\ req[p].date = Undef)
         => C35_KeepsDayAndToken(p)]_vars

\* the same for an update whose body has neither appointmentDate nor
\* appointmentDay
C35_NoDateNoDayKeepsToken ==
  [][\A p \in Procs :
       (req[p].op = "update" /\ req[p].date = Undef /\ req[p].day = Undef)
         => C35_KeepsDayAndToken(p)]_vars

\* ------------------------------------------------------------------ C36
\* the appointments that hold token tk on day dy
C36_Holders(dy, tk) == {a \in appts : a.day = dy /\ a.token = tk}

\* the step that saves a dispense: one created by (date, token) refers to the
\* one appointment holding that token on that day and carries its
\* appointmentDay and dailyToken, one created by patient refers to none; the
\* step changes no appointment
C36_Resolves ==
  \A n \in dispenses' :
    (\A d \in dispenses : d.id # n.id) =>
      /\ appts' = appts
      /\ IF n.dailyToken # Undef
         THEN /\ Cardinality(C36_Holders(n.appointmentDay, n.dailyToken)) = 1
              /\ \A a \in C36_Holders(n.appointmentDay, n.dailyToken) :
                   n.appointment = a.id
         ELSE n.appointment = Undef /\ n.appointmentDay = Undef

\* the later steps of a creation: only the last one changes an appointment,
\* the one the dispense refers to, and only its status; a creation by patient
\* changes none
C36_Marks(p) ==
  (dreq[p].op = "create" /\ dreq'[p] # dreq[p]) =>
    IF dpc'[p] = "idle" /\ dreq[p].appt # Undef
    THEN /\ \A a \in appts :
              IF a.id = dreq[p].appt
              THEN [a EXCEPT !.status = "prescription dispensed"] \in appts'
              ELSE a \in appts'
         /\ Cardinality(appts') = Cardinality(appts)
         /\ \E d \in dispenses : d.id = dreq[p].id /\ d.appointment = dreq[p].appt
    ELSE appts' = appts

\* an appointment with status 'prescription dispensed' does not block its
\* slot: the conflict query for its doctor, date and time finds something
\* only if another appointment holds the slot
C36_Unblocked ==
  \A a \in appts :
    (a.status = "prescription dispensed"
       /\ HasConflict(a.doctor, a.date, a.time, Undef))
      => \E x \in appts : x.id # a.id /\ SameSlot(x, a) /\ Active(x)

\* C36: creating a dispense by (date, token) resolves exactly the appointment
\* holding that token on that day, snapshots its appointmentDay and dailyToken
\* on the dispense and sets the appointment's status to 'prescription
\* dispensed', after which the appointment no longer blocks its (doctor,
\* date, time) slot in the conflict check; creating a dispense by patient
\* changes no appointment.
C36_DispenseByToken ==
  /\ []C36_Unblocked
  /\ [][C36_Resolves /\ \A p \in Procs : C36_Marks(p)]_vars

\* a dispense was created by token for the stored appointment, and a second
\* booking of the same doctor, date and time was then accepted
C36_Witness ==
  /\ \A p \in Procs : pc[p] = "idle" /\ dpc[p] = "idle"
  /\ \E a, x \in appts, d \in dispenses :
       /\ d.appointment = a.id
       /\ d.appointmentDay = a.day /\ d.dailyToken = a.token
       /\ a.status = "prescription dispensed"
       /\ x.id # a.id /\ SameSlot(x, a) /\ x.status = "scheduled"

\* ------------------------------------------------------------------ C37
\* the fields of a dispense that a payment does not concern
C37_Billed(d) ==
  <<d.id, d.appointment, d.appointmentDay, d.dailyToken, d.items, d.subtotal,
    d.tax, d.discount, d.total>>

\* a step of the pay request of p
C37_PayFrame(p) ==
  (dreq'[p] # dreq[p] /\ (dreq[p].op = "pay" \/ dreq'[p].op = "pay")) =>
    /\ stock' = stock
    /\ appts' = appts
    /\ {d.id : d \in dispenses'} = {d.id : d \in dispenses}
    /\ \A d \in dispenses, n \in dispenses' :
         n.id = d.id =>
           /\ C37_Billed(n) = C37_Billed(d)
           /\ n.billNumber # d.billNumber => d.billNumber = NoBill
           /\ d.id # dreq[p].id => n = d

\* a step of the update request of p
C37_UpdateFrame(p) ==
  (dreq'[p] # dreq[p] /\ (dreq[p].op = "update" \/ dreq'[p].op = "update")) =>
    /\ {d.id : d \in dispenses'} = {d.id : d \in dispenses}
    /\ \A d \in dispenses, n \in dispenses' :
         n.id = d.id =>
           n.paidAmount = d.paidAmount /\ n.billNumber = d.billNumber

\* C37: a pay request changes only paidAmount, paymentStatus and, when it is
\* unset, billNumber of its dispense: items, subtotal, tax, discount and
\* total, the stock of every medicine and every appointment stay as they
\* are; an update request leaves paidAmount and billNumber as they are.
C37_PayAndUpdateFrames ==
  [][\A p \in Procs : C37_PayFrame(p) /\ C37_UpdateFrame(p)]_vars

\* an update has just been saved on a dispense that holds a payment
C37_Witness ==
  /\ \A p \in Procs : dpc[p] = "idle"
  /\ result = "ok"
  /\ \E d \in dispenses : d.paidAmount > 0 /\ d.v > 0

\* ------------------------------------------------------------------ C38
\* the script has run to completion
C38_Completed ==
  /\ budget = 0
  /\ \A p \in Procs : pc[p] = "idle"
  /\ result = "ok"

\* after a completed run every appointment has the appointmentDay of its
\* appointmentDate and the tokens of each day are 1..n in ascending
\* appointmentTime order
C38_Renumbered ==
  C38_Completed =>
    /\ \A a \in appts : a.day = a.date - (a.date % DayLength)
    /\ \A day \in Days :
         {a.token : a \in OnDay(day)} = 1..Cardinality(OnDay(day))
    /\ \A a, b \in appts :
         (a.day = b.day /\ TimeRank(a.time) < TimeRank(b.time))
           => a.token < b.token

\* every updateOne the script is about to issue sets a key that no other
\* document holds
C38_UpdatesRespectIndex ==
  \A p \in Procs :
    (pc[p] = "b_loop" /\ req[p].work # <<>>
       /\ NeedsUpdate(Head(req[p].work)))
      => ~DupKey(Head(req[p].work).dayTs, Head(req[p].work).desired,
                 Head(req[p].work).id)

\* C38: the backfill script, run to completion on any set of appointments,
\* leaves every appointment with appointmentDay equal to its truncated
\* appointmentDate and each day's tokens 1..n in ascending appointmentTime
\* order, and every single-document update it issues on the way respects the
\* unique (appointmentDay, dailyToken) index.
C38_Backfill == C38_Renumbered /\ C38_UpdatesRespectIndex

====
